---------------------------- MODULE Spec2Model ----------------------------
(***************************************************************************)
(* The Transaction model of backend/models/Transaction.js: a Mongoose      *)
(* schema with setters, validators, two pre('save') hooks, four statics    *)
(* (queries) and four instance methods.                                    *)
(*                                                                         *)
(* In-memory documents (docs) and the persisted collection (store) are     *)
(* kept apart: an assignment changes a document, only save() changes the   *)
(* collection.  Model.create(input) is new Model(input) followed by        *)
(* save(), here the actions New and Save.                                  *)
(*                                                                         *)
(* Values.  Free text (description, notes, tags, category.primary) is a    *)
(* sequence of one-character strings, so that trim and toLowerCase are     *)
(* computed.  An optional number or text is a set with at most one         *)
(* element: {} is undefined/null, {v} is v.  The short string fields       *)
(* (user, account, plaidTransactionId, type, status, currency) use the     *)
(* string Null for undefined.  Time is a natural number.                   *)
(*                                                                         *)
(* Not modelled (no operation of the file reads or writes them): merchant, *)
(* recurring, split, location, metadata, category.secondary, isHidden,     *)
(* isArchived, the timestamps and the virtuals.                            *)
(***************************************************************************)
EXTENDS Integers, Sequences, FiniteSets, TLC

VARIABLES
    docs,       \* the caller's documents, by handle 1..Len(docs)
    store,      \* the collection: _id -> persisted fields
    now,        \* the clock (Date.now())
    lastOp,     \* the last operation: its arguments, its outcome, the time, the
                \* document as it was when the operation was called (before)
                \* and what the collection held for it then (was)
    result,     \* what the last query returned
    postedAt    \* history: _id -> {time of the save that first persisted it as posted}

vars == <<docs, store, now, lastOp, result, postedAt>>

---------------------------------------------------------------------------
(* Bounds *)

MaxDocs == 2
MaxTime == 2
MaxTags == 3
MaxRecords == 3

---------------------------------------------------------------------------
(* Values *)

Null == "null"

Some(v) == {v}

Val(o) == CHOOSE v \in o : TRUE

DescriptionMaxLength == 200

NotesMaxLength == 500

TypeEnum == {"income", "expense", "transfer"}

StatusEnum == {"pending", "posted", "cancelled", "failed"}

CurrencyEnum == {"USD", "EUR", "GBP", "CAD", "AUD", "JPY", "CHF"}

\* n copies of the character c
Rep(c, n) == [i \in 1..n |-> c]

\* the text "Copy of "
CopyOf == <<"C", "o", "p", "y", " ", "o", "f", " ">>

\* the text "undefined", what a template literal makes of undefined
Undefined == <<"u", "n", "d", "e", "f", "i", "n", "e", "d">>

---------------------------------------------------------------------------
(* String.prototype.toLowerCase / toUpperCase / trim, and the schema's     *)
(* lowercase / uppercase / trim setters built on them                      *)

LowerChar(c) ==
    CASE c = "A" -> "a"
      [] c = "B" -> "b"
      [] c = "C" -> "c"
      [] c = "F" -> "f"
      [] c = "S" -> "s"
      [] OTHER -> c

toLowerCase(s) == [i \in 1..Len(s) |-> LowerChar(s[i])]

RECURSIVE trimStart(_)
trimStart(s) == IF s # <<>> /\ Head(s) = " " THEN trimStart(Tail(s)) ELSE s

RECURSIVE trimEnd(_)
trimEnd(s) ==
    IF s # <<>> /\ s[Len(s)] = " " THEN trimEnd(SubSeq(s, 1, Len(s) - 1)) ELSE s

trim(s) == trimEnd(trimStart(s))

\* lowercase: true on the enumerated string fields type and status
LowercaseSetter(v) ==
    CASE v = "Income" -> "income"
      [] v = "EXPENSE" -> "expense"
      [] v = "Transfer" -> "transfer"
      [] v = "Posted" -> "posted"
      [] v = "PENDING" -> "pending"
      [] OTHER -> v

\* uppercase: true on currency
UppercaseSetter(v) ==
    CASE v = "usd" -> "USD"
      [] v = "eur" -> "EUR"
      [] OTHER -> v

\* trim: true on an optional text
TrimSetter(o) == {trim(s) : s \in o}

\* tags: [{ type: String, trim: true, lowercase: true }], applied to every element
TagSetter(t) == toLowerCase(trim(t))

CastTags(ts) == [i \in 1..Len(ts) |-> TagSetter(ts[i])]


---------------------------------------------------------------------------
(* Documents *)

\* the stored paths of a document (everything but Mongoose's isNew flag)
Paths ==
    {"_id", "user", "account", "plaidTransactionId", "amount", "currency", "type",
     "primary", "description", "date", "postedDate", "status", "tags", "notes",
     "attachments", "isReconciled", "reconciliationDate"}

\* the setter the schema declares for a path, applied on every assignment
ApplySetter(path, v) ==
    CASE path \in {"type", "status"} -> LowercaseSetter(v)
      [] path = "currency" -> UppercaseSetter(v)
      [] path \in {"primary", "description", "notes"} -> TrimSetter(v)
      [] path = "tags" -> CastTags(v)
      [] OTHER -> v

\* new Transaction(input) at time t: setters on what is given, the schema's
\* defaults for what is not, a generated _id
NewDoc(input, id, t) ==
    [_id |-> Some(id),
     isNew |-> TRUE,
     user |-> input.user,
     account |-> input.account,
     plaidTransactionId |-> input.plaidTransactionId,
     amount |-> input.amount,
     currency |-> IF input.currency = Null THEN "USD"
                  ELSE ApplySetter("currency", input.currency),
     type |-> ApplySetter("type", input.type),
     primary |-> ApplySetter("primary", input.primary),
     description |-> ApplySetter("description", input.description),
     date |-> IF input.date = {} THEN Some(t) ELSE input.date,
     postedDate |-> input.postedDate,
     status |-> IF input.status = Null THEN "pending"
                ELSE ApplySetter("status", input.status),
     tags |-> ApplySetter("tags", input.tags),
     notes |-> ApplySetter("notes", input.notes),
     attachments |-> input.attachments,
     isReconciled |-> input.isReconciled,
     reconciliationDate |-> input.reconciliationDate]

\* what save() writes to the collection
Persisted(d) == [p \in Paths |-> d[p]]

---------------------------------------------------------------------------
(* Validation: the schema's required / enum / maxlength / validate options. *)
(* Mongoose runs every validator and collects the failing paths; only the   *)
(* required validator runs on an undefined value.                           *)

Check(failed, path) == IF failed THEN {path} ELSE {}

\* amount.validate.validator
AmountValidator(v) == v # 0

ValidationErrors(d) ==
    Check(d.user = Null, "user")
    \cup Check(d.account = Null, "account")
    \cup Check(d.amount = {} \/ \E v \in d.amount : ~AmountValidator(v), "amount")
    \cup Check(d.currency # Null /\ d.currency \notin CurrencyEnum, "currency")
    \cup Check(d.type = Null \/ d.type \notin TypeEnum, "type")
    \cup Check(d.primary = {} \/ d.primary = {<<>>}, "category.primary")
    \cup Check(d.description = {} \/ d.description = {<<>>}
               \/ \E s \in d.description : Len(s) > DescriptionMaxLength, "description")
    \cup Check(d.date = {}, "date")
    \cup Check(d.status # Null /\ d.status \notin StatusEnum, "status")
    \cup Check(\E s \in d.notes : Len(s) > NotesMaxLength, "notes")

---------------------------------------------------------------------------
(* The two pre('save') hooks, in the order they are registered *)

\* a variant that stamps a document only on its first save
StampPostedDateOnInsert(d, t) ==
    IF d.isNew /\ d.status = "posted" /\ d.postedDate = {}
    THEN [d EXCEPT !.postedDate = Some(t)]
    ELSE d

\* a variant that stamps every posted document, stamped before or not
StampPostedDateAlways(d, t) ==
    IF d.status = "posted"
    THEN [d EXCEPT !.postedDate = Some(t)]
    ELSE d

\* pre('save'): set posted date if not provided
StampPostedDate(d, t) ==
    IF d.status = "posted" /\ d.postedDate = {}
    THEN [d EXCEPT !.postedDate = Some(t)]
    ELSE d

Abs(n) == IF n < 0 THEN -n ELSE n

\* a variant without the branch for expenses
NormalizeIncomeOnly(d) ==
    IF d.type = "income" /\ \E v \in d.amount : v < 0
    THEN [d EXCEPT !.amount = {Abs(v) : v \in d.amount}]
    ELSE d

\* pre('save'): the sign of amount follows type
NormalizeAmountSign(d) ==
    IF d.type = "income" /\ \E v \in d.amount : v < 0
    THEN [d EXCEPT !.amount = {Abs(v) : v \in d.amount}]
    ELSE IF d.type = "expense" /\ \E v \in d.amount : v > 0
    THEN [d EXCEPT !.amount = {-Abs(v) : v \in d.amount}]
    ELSE d

PreSave(d, t) == NormalizeAmountSign(StampPostedDate(d, t))

\* The collection's indexes put no constraint on an insert: none of them is
\* declared unique (plaidTransactionId is { sparse: true, index: true }).
IndexAccepts(st, rec) == TRUE

\* Mongoose refuses to insert a new document whose _id is undefined
\* ("document must have an _id before saving").
HasId(d) == d._id # {}

\* document.save(): validate, run the hooks, then insert or update.
\* The outcome and the new values of docs, store and postedAt.
SaveOutcome(h, d) ==
    LET errs == ValidationErrors(d)
        hooked == PreSave(d, now)
        rec == Persisted(hooked)
    IN  IF errs # {}
        THEN [outcome |-> "ValidationError", errors |-> errs,
              docs |-> [docs EXCEPT ![h] = d], store |-> store,
              postedAt |-> postedAt]
        ELSE IF ~HasId(hooked)
        THEN [outcome |-> "MongooseError", errors |-> {},
              docs |-> [docs EXCEPT ![h] = hooked], store |-> store,
              postedAt |-> postedAt]
        ELSE IF ~IndexAccepts(store, rec)
        THEN [outcome |-> "MongoError", errors |-> {},
              docs |-> [docs EXCEPT ![h] = hooked], store |-> store,
              postedAt |-> postedAt]
        ELSE LET id == Val(hooked._id)
             IN  [outcome |-> "ok", errors |-> {},
                  docs |-> [docs EXCEPT ![h] = [hooked EXCEPT !.isNew = FALSE]],
                  store |-> [i \in DOMAIN store \cup {id} |->
                                IF i = id THEN rec ELSE store[i]],
                  postedAt |-> IF rec.status = "posted" /\ id \notin DOMAIN postedAt
                               THEN [i \in DOMAIN postedAt \cup {id} |->
                                        IF i = id THEN now ELSE postedAt[i]]
                               ELSE postedAt]

\* a handler that leaves the document as d and ends in this.save()
SaveAs(op, h, args, d) ==
    LET out == SaveOutcome(h, d)
    IN  /\ docs' = out.docs
        /\ store' = out.store
        /\ postedAt' = out.postedAt
        /\ lastOp' = [op |-> op, h |-> h, outcome |-> out.outcome,
                      errors |-> out.errors, args |-> args, before |-> docs[h],
                      was |-> {store[i] : i \in DOMAIN store \cap d._id}, at |-> now]

---------------------------------------------------------------------------
(* Actions of the write path *)

Handles == 1..Len(docs)

\* new Transaction(input)
New(input) ==
    /\ Len(docs) < MaxDocs
    /\ docs' = Append(docs, NewDoc(input, Len(docs) + 1, now))
    /\ lastOp' = [op |-> "new", h |-> Len(docs) + 1, outcome |-> "ok",
                  errors |-> {}, args |-> input, before |-> {}, was |-> {},
                  at |-> now]
    /\ UNCHANGED <<store, now, result, postedAt>>

\* doc[path] = v
Assign(h, path, v) ==
    /\ h \in Handles
    /\ docs' = [docs EXCEPT ![h][path] = ApplySetter(path, v)]
    /\ docs' # docs
    /\ lastOp' = [op |-> "assign", h |-> h, outcome |-> "ok", errors |-> {},
                  args |-> <<path, v>>, before |-> docs[h], was |-> {}, at |-> now]
    /\ UNCHANGED <<store, now, result, postedAt>>

\* doc.save()
Save(h) ==
    /\ h \in Handles
    /\ SaveAs("save", h, <<>>, docs[h])
    /\ UNCHANGED <<now, result>>

\* time passes
Tick ==
    /\ now < MaxTime
    /\ now' = now + 1
    /\ UNCHANGED <<docs, store, lastOp, result, postedAt>>


---------------------------------------------------------------------------
(* Instance methods *)

\* `${v}`: the text a template literal makes of an optional text
TemplateText(o) == IF o = {} THEN Undefined ELSE Val(o)

\* a variant that leaves the reconciliation of the original on the copy
DuplicateKeepingReconciliation(d, t) ==
    LET copy == NewDoc(d, 0, t)
        text == TemplateText(d.description)
    IN  [copy EXCEPT
            !._id = {},
            !.date = Some(t),
            !.status = ApplySetter("status", "pending"),
            !.description = ApplySetter("description", Some(CopyOf \o text)),
            !.attachments = <<>>,
            !.notes = ApplySetter("notes", Some(<<>>))]

\* methods.duplicate at time t: the copy it returns
DuplicateOf(d, t) ==
    LET copy == NewDoc(d, 0, t)
        text == TemplateText(d.description)
    IN  [copy EXCEPT
            !._id = {},
            !.date = Some(t),
            !.status = ApplySetter("status", "pending"),
            !.description = ApplySetter("description", Some(CopyOf \o text)),
            !.attachments = <<>>,
            !.notes = ApplySetter("notes", Some(<<>>)),
            !.isReconciled = FALSE,
            !.reconciliationDate = {}]

Duplicate(h) ==
    /\ h \in Handles
    /\ Len(docs) < MaxDocs
    /\ docs' = Append(docs, DuplicateOf(docs[h], now))
    /\ lastOp' = [op |-> "duplicate", h |-> h, outcome |-> "ok", errors |-> {},
                  args |-> <<>>, before |-> docs[h], was |-> {}, at |-> now]
    /\ UNCHANGED <<store, now, result, postedAt>>

\* methods.markReconciled
Reconciled(d, t) == [d EXCEPT !.isReconciled = TRUE, !.reconciliationDate = Some(t)]

MarkReconciled(h) ==
    /\ h \in Handles
    /\ SaveAs("markReconciled", h, <<>>, Reconciled(docs[h], now))
    /\ UNCHANGED <<now, result>>

\* Array.prototype.includes on the tags
Includes(ts, t) == \E i \in 1..Len(ts) : ts[i] = t

\* methods.addTag up to its save(): push casts the pushed element
WithTag(d, tag) ==
    IF ~Includes(d.tags, toLowerCase(tag))
    THEN [d EXCEPT !.tags = Append(@, TagSetter(toLowerCase(tag)))]
    ELSE d

AddTag(h, tag) ==
    /\ h \in Handles
    /\ Len(docs[h].tags) < MaxTags
    /\ SaveAs("addTag", h, tag, WithTag(docs[h], tag))
    /\ UNCHANGED <<now, result>>

\* methods.removeTag up to its save()
WithoutTag(d, tag) ==
    [d EXCEPT !.tags =
        ApplySetter("tags", SelectSeq(@, LAMBDA t : t # toLowerCase(tag)))]

RemoveTag(h, tag) ==
    /\ h \in Handles
    /\ SaveAs("removeTag", h, tag, WithoutTag(docs[h], tag))
    /\ UNCHANGED <<now, result>>


---------------------------------------------------------------------------
(* Initial state and constructor inputs *)

NoOp == [op |-> "none", h |-> 0, outcome |-> "ok", errors |-> {}, args |-> <<>>,
         before |-> {}, was |-> {}, at |-> 0]

Init ==
    /\ docs = <<>>
    /\ store = <<>>
    /\ now = 0
    /\ lastOp = NoOp
    /\ result = <<>>
    /\ postedAt = <<>>

\* a valid constructor input; the sets of inputs below vary it
BaseInput ==
    [user |-> "u1", account |-> "a1", plaidTransactionId |-> Null,
     amount |-> Some(50), currency |-> Null, type |-> "expense",
     primary |-> Some(<<"F">>), description |-> Some(<<"x">>), date |-> {},
     postedDate |-> {}, status |-> Null, tags |-> <<>>, notes |-> {},
     attachments |-> <<>>, isReconciled |-> FALSE, reconciliationDate |-> {}]

\* the record a successful save of handle h has just written
Written == store[Val(docs[lastOp.h]._id)]

SavedOk == lastOp.op \in {"save", "markReconciled", "addTag", "removeTag"}
           /\ lastOp.outcome = "ok"

---------------------------------------------------------------------------
(* Sign of amount: type and amount are assigned and saved *)

SignInputs ==
    {[BaseInput EXCEPT !.type = ty, !.amount = Some(am)] :
        ty \in {"Income", "expense", "transfer"}, am \in {-50, 50}}

NextSign ==
    \/ \E input \in SignInputs : New(input)
    \/ \E h \in Handles, ty \in TypeEnum : Assign(h, "type", ty)
    \/ \E h \in Handles, am \in {-50, 0, 50} : Assign(h, "amount", Some(am))
    \/ \E h \in Handles : Save(h)

SpecSign == Init /\ [][NextSign]_vars

\* C1: every persisted record of type income has amount >= 0, every persisted
\* record of type expense has amount <= 0, and a save of a transfer persists
\* the amount the caller supplied.
C1_AmountSignFollowsType ==
    /\ \A id \in DOMAIN store :
          /\ store[id].type = "income" => \A v \in store[id].amount : v >= 0
          /\ store[id].type = "expense" => \A v \in store[id].amount : v <= 0
    /\ SavedOk /\ Written.type = "transfer" => Written.amount = lastOp.before.amount

\* a save has turned the caller's negative income into a positive one and
\* another record's positive expense is stored negative
C1_Witness ==
    /\ SavedOk
    /\ lastOp.before.type = "income"
    /\ lastOp.before.amount = Some(-50)
    /\ Written.amount = Some(50)
    /\ \E id \in DOMAIN store :
          store[id].type = "expense" /\ store[id].amount = Some(-50)


---------------------------------------------------------------------------
(* postedDate: status and postedDate are assigned, records are duplicated, *)
(* a copy is given an _id, time passes                                     *)

PostedInputs ==
    {[BaseInput EXCEPT !.status = st, !.postedDate = pd, !.date = Some(0)] :
        st \in {Null, "Posted"}, pd \in {{}, Some(0)}}

NextPosted ==
    \/ \E input \in PostedInputs : New(input)
    \/ \E h \in Handles, st \in {"pending", "posted"} : Assign(h, "status", st)
    \/ \E h \in Handles : Assign(h, "postedDate", {})
    \/ \E h \in Handles : Assign(h, "_id", Some(h))
    \/ \E h \in Handles : Duplicate(h)
    \/ \E h \in Handles : Save(h)
    \/ Tick

SpecPosted == Init /\ [][NextPosted]_vars

\* the document the last save persisted was handed to it posted and without
\* a postedDate
CameUnstamped == lastOp.before.status = "posted" /\ lastOp.before.postedDate = {}

\* C2: every persisted record with status posted has a postedDate, and a save
\* that persists as posted a record that came to it without a postedDate (in
\* particular one persisted before with another status) stores the time of
\* that save as its postedDate.
C2_PostedHasPostedDate ==
    /\ \A id \in DOMAIN store :
          store[id].status = "posted" => store[id].postedDate # {}
    /\ SavedOk /\ CameUnstamped => Written.postedDate = Some(lastOp.at)

\* a record persisted as pending at an earlier time has just been saved as
\* posted and carries the time of that save
C2_Witness ==
    /\ SavedOk /\ CameUnstamped
    /\ \E r \in lastOp.was : r.status = "pending" /\ r.postedDate = {}
    /\ lastOp.at > 0
    /\ Written.status = "posted"
    /\ Written.postedDate = Some(lastOp.at)

\* C10 as claimed: a record never persisted as posted has no postedDate, and
\* the postedDate a record holds is the time of the save that first persisted
\* it as posted.
C10_PostedDateOnlyFromPosting ==
    \A id \in DOMAIN store :
        /\ id \notin DOMAIN postedAt => store[id].postedDate = {}
        /\ id \in DOMAIN postedAt => store[id].postedDate \subseteq {postedAt[id]}

\* C10 as amended: a save stamps postedDate with its own time exactly when the
\* record comes to it posted and without a postedDate; every other save
\* persists the postedDate the record carried, whether save stamped it
\* earlier, the caller supplied it or duplicate copied it.
C10_SaveStampsExactlyUnstampedPosted ==
    SavedOk =>
        Written.postedDate =
            IF CameUnstamped THEN Some(lastOp.at) ELSE lastOp.before.postedDate

\* a copy of a posted record, saved as pending, carries the original's
\* postedDate although it was never persisted as posted
C10_Witness ==
    /\ SavedOk
    /\ lastOp.h = 2
    /\ lastOp.was = {}
    /\ DOMAIN postedAt = {1}
    /\ Written.status = "pending"
    /\ Written.postedDate = Some(postedAt[1])
    /\ Written.description = Some(CopyOf \o <<"x">>)
    /\ lastOp.at > postedAt[1]


---------------------------------------------------------------------------
(* Bank import: records carry the bank's transaction id *)

ExternalIds == {"tx1", "tx2"}

ImportInputs ==
    {[BaseInput EXCEPT !.plaidTransactionId = x, !.amount = Some(am)] :
        x \in ExternalIds \cup {Null}, am \in {-50, -30}}

NextImport ==
    \/ \E input \in ImportInputs : New(input)
    \/ \E h \in Handles, x \in ExternalIds : Assign(h, "plaidTransactionId", x)
    \/ \E h \in Handles : Save(h)

SpecImport == Init /\ [][NextImport]_vars

\* C3: no two persisted records carry the same externalId (plaidTransactionId),
\* and a save that inserts a record whose externalId another persisted record
\* already carries fails.
C3_ExternalIdUnique ==
    /\ \A i, j \in DOMAIN store :
          i # j /\ store[i].plaidTransactionId # Null
              => store[i].plaidTransactionId # store[j].plaidTransactionId
    /\ lastOp.op = "save" /\ lastOp.was = {}
       /\ lastOp.before.plaidTransactionId # Null
       /\ (\E i \in DOMAIN store \ lastOp.before._id :
              store[i].plaidTransactionId = lastOp.before.plaidTransactionId)
          => lastOp.outcome # "ok"


---------------------------------------------------------------------------
(* Validation: one record is constructed from an input that breaks at most *)
(* one constraint, assignments break or mend it, every handler that ends   *)
(* in save() runs on it, and once it is stored it is duplicated            *)

ValidateInputs ==
    {BaseInput,
     [BaseInput EXCEPT !.user = Null],
     [BaseInput EXCEPT !.account = Null],
     [BaseInput EXCEPT !.amount = {}],
     [BaseInput EXCEPT !.amount = Some(0)],
     [BaseInput EXCEPT !.type = Null],
     [BaseInput EXCEPT !.type = "gift"],
     [BaseInput EXCEPT !.currency = "eur"],
     [BaseInput EXCEPT !.currency = "XXX"],
     [BaseInput EXCEPT !.primary = {}],
     [BaseInput EXCEPT !.primary = Some(<<" ">>)],
     [BaseInput EXCEPT !.description = {}],
     [BaseInput EXCEPT !.description = Some(<<>>)],
     [BaseInput EXCEPT !.description = Some(Rep("x", DescriptionMaxLength))],
     [BaseInput EXCEPT !.description = Some(Rep("x", DescriptionMaxLength + 1))],
     [BaseInput EXCEPT !.description = Some(Rep("x", DescriptionMaxLength) \o <<" ">>)],
     [BaseInput EXCEPT !.status = "unknown"],
     [BaseInput EXCEPT !.notes = Some(Rep("n", NotesMaxLength))],
     [BaseInput EXCEPT !.notes = Some(Rep("n", NotesMaxLength + 1))]}

NextValidate ==
    \/ docs = <<>> /\ \E input \in ValidateInputs : New(input)
    \/ \E h \in Handles, am \in {0, 50} : Assign(h, "amount", Some(am))
    \/ \E h \in Handles, n \in {1, DescriptionMaxLength + 1} :
          Assign(h, "description", Some(Rep("x", n)))
    \/ \E h \in Handles : Save(h)
    \/ \E h \in Handles : MarkReconciled(h)
    \/ \E h \in Handles : ~docs[h].isNew /\ Duplicate(h)

SpecValidate == Init /\ [][NextValidate]_vars

\* the field constraints as the claim lists them
C4_Violates(d) ==
    \/ d.amount = Some(0)
    \/ \E s \in d.description : Len(s) > 200
    \/ \E s \in d.notes : Len(s) > 500
    \/ d.user = Null \/ d.account = Null \/ d.amount = {} \/ d.type = Null
    \/ d.primary \in {{}, Some(<<>>)} \/ d.description \in {{}, Some(<<>>)}
    \/ d.date = {}
    \/ d.type \notin {"income", "expense", "transfer", Null}
    \/ d.status \notin {"pending", "posted", "cancelled", "failed", Null}
    \/ d.currency \notin {"USD", "EUR", "GBP", "CAD", "AUD", "JPY", "CHF", Null}

SaveOps == {"save", "markReconciled", "addTag", "removeTag"}

\* C4: a save (on creation or on update) of a record that violates a field
\* constraint fails with ValidationError and leaves what the collection holds
\* for it as it was; a save of a record that satisfies them all persists it.
C4_EveryWriteValidated ==
    lastOp.op \in SaveOps =>
        /\ C4_Violates(lastOp.before) =>
              /\ lastOp.outcome = "ValidationError"
              /\ {store[i] : i \in DOMAIN store \cap lastOp.before._id} = lastOp.was
        /\ ~C4_Violates(lastOp.before) =>
              /\ lastOp.outcome = "ok"
              /\ \E i \in DOMAIN store : store[i] = Persisted(docs[lastOp.h])

---------------------------------------------------------------------------
(* Tags *)

TagInputs == {<<"a">>, <<"A">>, <<" ", "a">>, <<"b">>}

TagsInputs == {[BaseInput EXCEPT !.tags = ts] : ts \in {<<>>, <<<<"B">>>>}}

NextTags ==
    \/ \E input \in TagsInputs : New(input)
    \/ \E h \in Handles : Save(h)
    \/ \E h \in Handles, tag \in TagInputs : AddTag(h, tag)
    \/ \E h \in Handles, tag \in TagInputs : RemoveTag(h, tag)

SpecTags == Init /\ [][NextTags]_vars

Elements(ts) == {ts[i] : i \in 1..Len(ts)}

\* C6: the stored tags are lowercase and hold no tag twice; addTag of a tag
\* that is present in some letter case, and removeTag of a tag that is absent,
\* leave the tags as they were.
C6_TagsAreALowercaseSet ==
    /\ \A id \in DOMAIN store :
          LET ts == store[id].tags
          IN  /\ \A i \in 1..Len(ts) : ts[i] = toLowerCase(ts[i])
              /\ \A i, j \in 1..Len(ts) : ts[i] = ts[j] => i = j
    /\ SavedOk /\ lastOp.op = "addTag"
       /\ toLowerCase(lastOp.args) \in Elements(lastOp.before.tags)
          => Written.tags = lastOp.before.tags
    /\ SavedOk /\ lastOp.op = "removeTag"
       /\ toLowerCase(lastOp.args) \notin Elements(lastOp.before.tags)
          => Written.tags = lastOp.before.tags


---------------------------------------------------------------------------
(* Duplicate: one record with tags, notes, attachments and a status is     *)
(* constructed, saved, reconciled and duplicated as time passes            *)

DuplicateInputs ==
    {[BaseInput EXCEPT !.description = ds, !.status = st, !.tags = ts,
                       !.notes = ns, !.attachments = as] :
        ds \in {{}, Some(<<>>), Some(<<"x">>)},
        st \in {Null, "posted"},
        ts \in {<<>>, <<<<"a">>>>},
        ns \in {{}, Some(<<"n">>)},
        as \in {<<>>, <<"receipt.pdf">>}}

NextDuplicate ==
    \/ docs = <<>> /\ \E input \in DuplicateInputs : New(input)
    \/ \E h \in Handles : Save(h)
    \/ \E h \in Handles : MarkReconciled(h)
    \/ \E h \in Handles : Duplicate(h)
    \/ Tick

SpecDuplicate == Init /\ [][NextDuplicate]_vars

\* the paths duplicate resets
ResetPaths ==
    {"_id", "date", "status", "description", "attachments", "notes",
     "isReconciled", "reconciliationDate"}

\* a step of duplicate: of the document o, giving the copy c
DuplicateStep == Len(docs') = Len(docs) + 1 /\ lastOp'.op = "duplicate"

\* what C5 says of the copy but for its description
C5_Copy(o, c, t) ==
    /\ c.isNew
    /\ c._id = {}
    /\ c.date = Some(t)
    /\ c.status = "pending"
    /\ c.attachments = <<>>
    /\ c.notes \in {{}, Some(<<>>)}
    /\ c.isReconciled = FALSE
    /\ c.reconciliationDate = {}
    /\ \A p \in Paths \ ResetPaths : c[p] = o[p]

\* C5 as claimed: duplicate returns an unsaved record without identity, dated
\* now, pending, described as "Copy of " + the original's description, with
\* no attachments, notes or reconciliation and every other field the
\* original's, and leaves the original and the collection unchanged.
C5_DuplicateAsClaimed ==
    [][DuplicateStep =>
        LET o == docs[lastOp'.h]
            c == docs'[Len(docs')]
        IN  /\ C5_Copy(o, c, now)
            /\ c.description = Some(CopyOf \o TemplateText(o.description))
            /\ docs'[lastOp'.h] = o
            /\ store' = store]_vars

\* C5 as amended: the same, but the description is "Copy of " + the
\* original's description with the schema's trim applied: for an original
\* whose description is empty it is "Copy of", without the trailing space.
C5_DuplicateTrimsDescription ==
    [][DuplicateStep =>
        LET o == docs[lastOp'.h]
            c == docs'[Len(docs')]
        IN  /\ C5_Copy(o, c, now)
            /\ c.description = Some(trim(CopyOf \o TemplateText(o.description)))
            /\ \A s \in o.description :
                  s # <<>> => c.description = Some(CopyOf \o s)
            /\ docs'[lastOp'.h] = o
            /\ store' = store]_vars

\* a stored, posted, reconciled record with a tag, notes and an attachment
\* has been duplicated at a later time
C5_Witness ==
    /\ lastOp.op = "duplicate"
    /\ ~lastOp.before.isNew
    /\ lastOp.before.status = "posted"
    /\ lastOp.before.isReconciled
    /\ lastOp.before.tags # <<>>
    /\ lastOp.before.notes = Some(<<"n">>)
    /\ lastOp.before.attachments # <<>>
    /\ lastOp.at > Val(lastOp.before.date)
    /\ docs[Len(docs)].description = Some(CopyOf \o <<"x">>)
    /\ docs[Len(docs)].tags = lastOp.before.tags


---------------------------------------------------------------------------
(* Statics: the queries.  MongoDB leaves the order of equal sort keys      *)
(* open, so a query has a set of possible results.  Where the calendar     *)
(* matters a unit of time is half a month: instant t lies in month         *)
(* ((t % 24) \div 2) + 1 of year t \div 24.                                *)

Records(st) == {st[i] : i \in DOMAIN st}

\* every arrangement of the set S in a sequence
Arrangements(S) ==
    {f \in [1..Cardinality(S) -> S] :
        \A i, j \in 1..Cardinality(S) : f[i] = f[j] => i = j}

\* $sort, .sort(): the arrangements of S whose neighbours are in the relation
\* order, a set of pairs
Sorted(S, order) ==
    {f \in Arrangements(S) :
        \A i \in 1..(Cardinality(S) - 1) : <<f[i], f[i + 1]>> \in order}

\* .limit(n)
Limit(f, n) == SubSeq(f, 1, IF Len(f) < n THEN Len(f) ELSE n)

DateDescending(a, b) == Val(a.date) >= Val(b.date)

\* a variant that matches on the dates alone
RangeMatchAnyUser(st, user, start, end) ==
    {r \in Records(st) : \E d \in r.date : start <= d /\ d <= end}

\* find({ user, date: { $gte, $lte } })
RangeMatch(st, user, start, end) ==
    {r \in Records(st) : r.user = user /\ \E d \in r.date : start <= d /\ d <= end}

\* statics.findByUserAndDateRange: the possible results
findByUserAndDateRange(st, user, start, end) ==
    LET M == RangeMatch(st, user, start, end)
    IN  Sorted(M, {p \in M \X M : DateDescending(p[1], p[2])})

\* find({ user, 'category.primary': category })
CategoryMatch(st, user, category) ==
    {r \in Records(st) : r.user = user /\ r.primary = Some(category)}

\* statics.findByCategory: the possible results
findByCategory(st, user, category, limit) ==
    LET M == CategoryMatch(st, user, category)
    IN  {Limit(f, limit) : f \in Sorted(M, {p \in M \X M : DateDescending(p[1], p[2])})}

\* $sum: { $abs: '$amount' } over a set of records
RECURSIVE SumAbsAmount(_)
SumAbsAmount(S) ==
    IF S = {} THEN 0
    ELSE LET r == CHOOSE x \in S : TRUE
         IN  Abs(Val(r.amount)) + SumAbsAmount(S \ {r})

\* $sum: '$amount' over a set of records
RECURSIVE SumAmount(_)
SumAmount(S) ==
    IF S = {} THEN 0
    ELSE LET r == CHOOSE x \in S : TRUE
         IN  Val(r.amount) + SumAmount(S \ {r})

\* a variant that matches transactions of every type
SpendingMatchAnyType(st, user, start, end) == RangeMatch(st, user, start, end)

\* $match of getSpendingByCategory
SpendingMatch(st, user, start, end) ==
    {r \in RangeMatch(st, user, start, end) : r.type = "expense"}

\* $group of getSpendingByCategory
SpendingGroups(M) ==
    {[_id |-> c,
      totalAmount |-> SumAbsAmount({r \in M : r.primary = c}),
      count |-> Cardinality({r \in M : r.primary = c})] : c \in {r.primary : r \in M}}

TotalDescending(a, b) == a.totalAmount >= b.totalAmount

\* statics.getSpendingByCategory: the possible results
getSpendingByCategory(st, user, start, end) ==
    LET G == SpendingGroups(SpendingMatch(st, user, start, end))
    IN  Sorted(G, {p \in G \X G : TotalDescending(p[1], p[2])})

\* $year and $month of a date
YearOf(t) == t \div 24

MonthOf(t) == ((t % 24) \div 2) + 1

\* startDate.setMonth(startDate.getMonth() - months), at time t
TrendsStart(t, months) == t - 2 * months

\* $match of getMonthlyTrends
TrendsMatch(st, user, startDate) ==
    {r \in Records(st) : r.user = user /\ \E d \in r.date : d >= startDate}

TrendsKey(r) == [year |-> YearOf(Val(r.date)), month |-> MonthOf(Val(r.date)),
                 type |-> r.type]

\* $group of getMonthlyTrends
TrendsGroups(M) ==
    {[_id |-> k, totalAmount |-> SumAmount({r \in M : TrendsKey(r) = k})] :
        k \in {TrendsKey(r) : r \in M}}

\* a variant that sorts by the month alone
ByMonthAlone(a, b) == a._id.month <= b._id.month

Chronological(a, b) ==
    \/ a._id.year < b._id.year
    \/ a._id.year = b._id.year /\ a._id.month <= b._id.month

\* statics.getMonthlyTrends at time t: the possible results
getMonthlyTrends(st, user, months, t) ==
    LET G == TrendsGroups(TrendsMatch(st, user, TrendsStart(t, months)))
    IN  Sorted(G, {p \in G \X G : Chronological(p[1], p[2])})

\* a query returns one of its possible results
Query(op, args, outcomes) ==
    /\ result' \in outcomes
    /\ lastOp' = [op |-> op, h |-> 0, outcome |-> "ok", errors |-> {},
                  args |-> args, before |-> {}, was |-> {}, at |-> now]
    /\ UNCHANGED <<docs, store, now, postedAt>>

FindByUserAndDateRange(user, start, end) ==
    Query("findByUserAndDateRange", [user |-> user, start |-> start, end |-> end],
          findByUserAndDateRange(store, user, start, end))

FindByCategory(user, category, limit) ==
    Query("findByCategory", [user |-> user, category |-> category, limit |-> limit],
          findByCategory(store, user, category, limit))

GetSpendingByCategory(user, start, end) ==
    Query("getSpendingByCategory", [user |-> user, start |-> start, end |-> end],
          getSpendingByCategory(store, user, start, end))

GetMonthlyTrends(user, months) ==
    Query("getMonthlyTrends", [user |-> user, months |-> months],
          getMonthlyTrends(store, user, months, now))


---------------------------------------------------------------------------
(* Collections to query.  A collection holds what create() persisted for   *)
(* up to MaxRecords inputs; it is now month 12 (January of year 1), and    *)
(* the records are dated from month 10 (November of year 0) to month 13.   *)
(* The records are numbered in one order of their inputs: the queries do   *)
(* not read the numbering.                                                 *)

\* what create(input) persists as record id at time t
Created(input, id, t) == Persisted(PreSave(NewDoc(input, id, t), t))

\* an order of the inputs
InputRank(input) ==
    Val(input.date) + 100 * (IF input.user = "u1" THEN 0 ELSE 1)
    + 200 * (IF input.primary = Some(<<"F">>) THEN 0 ELSE 1)
    + 1000 * (Val(input.amount) + 50)

Collections(inputs, t) ==
    UNION {{[i \in 1..n |-> Created(f[i], i, t)] :
              f \in {g \in [1..n -> inputs] :
                        \A i \in 1..(n - 1) : InputRank(g[i]) <= InputRank(g[i + 1])}} :
           n \in 0..MaxRecords}

InitQuery(inputs) ==
    /\ docs = <<>>
    /\ now = 25
    /\ store \in Collections(inputs, now)
    /\ lastOp = NoOp
    /\ result = <<>>
    /\ postedAt = <<>>

Users == {"u1", "u2"}

Categories == {<<"F">>, <<"S">>}

\* type and amount as the caller gives them
Entry(ty, am) == [type |-> ty, amount |-> am]

QueryInput(user, entry, category, date) ==
    [BaseInput EXCEPT !.user = user, !.type = entry.type,
                      !.amount = Some(entry.amount),
                      !.primary = Some(category), !.date = Some(date)]

---------------------------------------------------------------------------
(* Spending by category *)

SpendingInputs ==
    {QueryInput("u1", e, c, d) :
        e \in {Entry("expense", 50), Entry("expense", -30), Entry("income", 1000),
               Entry("transfer", -20)},
        c \in Categories, d \in 10..12}
    \cup {QueryInput("u2", Entry("expense", -50), <<"F">>, d) : d \in 10..12}

NextSpending ==
    \E user \in Users, start \in 10..12, end \in 10..12 :
        start <= end /\ GetSpendingByCategory(user, start, end)

SpecSpending == InitQuery(SpendingInputs) /\ [][NextSpending]_vars

RECURSIVE C7_Total(_)
C7_Total(amounts) ==
    IF amounts = <<>> THEN 0
    ELSE (IF Head(amounts) < 0 THEN -Head(amounts) ELSE Head(amounts))
         + C7_Total(Tail(amounts))

\* the amounts of the records of store numbered in ids, in the order of their numbers
RECURSIVE AmountsOf(_, _)
AmountsOf(ids, n) ==
    IF n = 0 THEN <<>>
    ELSE AmountsOf(ids, n - 1)
         \o (IF n \in ids THEN <<Val(store[n].amount)>> ELSE <<>>)

\* C7: getSpendingByCategory(user, start, end) returns one entry for each
\* primary category of the user's expenses dated in [start, end], with the sum
\* of their absolute amounts and their number, by descending total.
C7_SpendingByCategory ==
    lastOp.op = "getSpendingByCategory" =>
        LET a == lastOp.args
            ids == {i \in DOMAIN store :
                       /\ store[i].user = a.user
                       /\ store[i].type = "expense"
                       /\ a.start <= Val(store[i].date)
                       /\ Val(store[i].date) <= a.end}
            In(c) == {i \in ids : store[i].primary = c}
        IN  /\ {result[k]._id : k \in 1..Len(result)} = {store[i].primary : i \in ids}
            /\ \A k, l \in 1..Len(result) : result[k]._id = result[l]._id => k = l
            /\ \A k \in 1..Len(result) :
                  /\ result[k].totalAmount
                        = C7_Total(AmountsOf(In(result[k]._id), MaxRecords))
                  /\ result[k].count = Cardinality(In(result[k]._id))
            /\ \A k \in 1..(Len(result) - 1) :
                  result[k].totalAmount >= result[k + 1].totalAmount

\* the user has two expenses of 50 and 30 in one category and an income of
\* 1000 in another, all in range: the result is that category with 80 and 2
C7_Witness ==
    /\ lastOp.op = "getSpendingByCategory"
    /\ lastOp.args.user = "u1"
    /\ {<<store[i].type, store[i].amount, store[i].primary>> : i \in DOMAIN store}
          = {<<"expense", Some(-50), Some(<<"F">>)>>,
             <<"expense", Some(-30), Some(<<"F">>)>>,
             <<"income", Some(1000), Some(<<"S">>)>>}
    /\ \A i \in DOMAIN store :
          /\ store[i].user = "u1"
          /\ lastOp.args.start <= Val(store[i].date)
          /\ Val(store[i].date) <= lastOp.args.end
    /\ result = <<[_id |-> Some(<<"F">>), totalAmount |-> 80, count |-> 2]>>


---------------------------------------------------------------------------
(* Monthly trends *)

TrendsInputs ==
    {QueryInput("u1", e, <<"F">>, d) :
        e \in {Entry("income", 1000), Entry("expense", -50), Entry("expense", -30)},
        d \in {20, 22, 23, 24, 26}}
    \cup {QueryInput("u2", Entry("expense", -50), <<"F">>, d) : d \in {23, 26}}

NextTrends == \E user \in Users, months \in 1..2 : GetMonthlyTrends(user, months)

SpecTrends == InitQuery(TrendsInputs) /\ [][NextTrends]_vars

RECURSIVE C8_Sum(_)
C8_Sum(amounts) ==
    IF amounts = <<>> THEN 0 ELSE Head(amounts) + C8_Sum(Tail(amounts))

\* the result of the last getMonthlyTrends is the grouping of the records
\* numbered in ids by year, month and type, with signed totals, in
\* chronological order
C8_Groups(ids) ==
    LET Key(i) == [year |-> Val(store[i].date) \div 24,
                   month |-> ((Val(store[i].date) % 24) \div 2) + 1,
                   type |-> store[i].type]
        In(k) == {i \in ids : Key(i) = k}
    IN  /\ {result[k]._id : k \in 1..Len(result)} = {Key(i) : i \in ids}
        /\ \A k, l \in 1..Len(result) : result[k]._id = result[l]._id => k = l
        /\ \A k \in 1..Len(result) :
              result[k].totalAmount = C8_Sum(AmountsOf(In(result[k]._id), MaxRecords))
        /\ \A k \in 1..(Len(result) - 1) :
              \/ result[k]._id.year < result[k + 1]._id.year
              \/ /\ result[k]._id.year = result[k + 1]._id.year
                 /\ result[k]._id.month <= result[k + 1]._id.month

\* C8 as claimed: getMonthlyTrends(user, months) groups the user's
\* transactions dated within the trailing `months` months, from `months`
\* months ago to now.
C8_TrendsOfTrailingMonths ==
    lastOp.op = "getMonthlyTrends" =>
        C8_Groups({i \in DOMAIN store :
                      /\ store[i].user = lastOp.args.user
                      /\ lastOp.at - 2 * lastOp.args.months <= Val(store[i].date)
                      /\ Val(store[i].date) <= lastOp.at})

\* C8 as amended: getMonthlyTrends(user, months) groups the user's
\* transactions dated `months` months ago or later, those dated after now
\* included.
C8_TrendsSinceMonthsAgo ==
    lastOp.op = "getMonthlyTrends" =>
        C8_Groups({i \in DOMAIN store :
                      /\ store[i].user = lastOp.args.user
                      /\ lastOp.at - 2 * lastOp.args.months <= Val(store[i].date)})

\* an income of 1000 late in December and an expense of 50 in the following
\* January, with an expense early in December, more than a month ago, left
\* out: two entries, 1000 then -50
C8_Witness ==
    /\ lastOp.op = "getMonthlyTrends"
    /\ lastOp.args = [user |-> "u1", months |-> 1]
    /\ Cardinality(DOMAIN store) = 3
    /\ \E i \in DOMAIN store :
          /\ store[i].user = "u1" /\ store[i].type = "expense"
          /\ store[i].date = Some(22)
    /\ result = <<[_id |-> [year |-> 0, month |-> 12, type |-> "income"],
                   totalAmount |-> 1000],
                  [_id |-> [year |-> 1, month |-> 1, type |-> "expense"],
                   totalAmount |-> -50]>>

---------------------------------------------------------------------------
(* Tenant isolation: two users' records in one collection, every query *)

IsolationInputs ==
    {QueryInput(u, e, c, d) :
        u \in Users, e \in {Entry("expense", -50), Entry("income", 1000)},
        c \in Categories, d \in {22, 24}}

NextIsolation ==
    \/ \E user \in Users, start \in {22, 24}, end \in {22, 24} :
          start <= end /\ FindByUserAndDateRange(user, start, end)
    \/ \E user \in Users, category \in Categories, limit \in 1..2 :
          FindByCategory(user, category, limit)
    \/ \E user \in Users, start \in {22, 24}, end \in {22, 24} :
          start <= end /\ GetSpendingByCategory(user, start, end)
    \/ \E user \in Users, months \in 1..2 : GetMonthlyTrends(user, months)

SpecIsolation == InitQuery(IsolationInputs) /\ [][NextIsolation]_vars

\* the collection without the records of the users other than user
OwnedBy(user) ==
    [i \in {j \in DOMAIN store : store[j].user = user} |-> store[i]]

\* C9: what a query for a user returns is a result of the same query on the
\* collection without the other users' records, every document returned is
\* the user's, and for a user who owns nothing the result is empty.
C9_TenantIsolation ==
    LET a == lastOp.args
        own == OwnedBy(a.user)
    IN  /\ lastOp.op = "findByUserAndDateRange" =>
              /\ result \in findByUserAndDateRange(own, a.user, a.start, a.end)
              /\ \A k \in 1..Len(result) : result[k].user = a.user
        /\ lastOp.op = "findByCategory" =>
              /\ result \in findByCategory(own, a.user, a.category, a.limit)
              /\ \A k \in 1..Len(result) : result[k].user = a.user
        /\ lastOp.op = "getSpendingByCategory" =>
              result \in getSpendingByCategory(own, a.user, a.start, a.end)
        /\ lastOp.op = "getMonthlyTrends" =>
              result \in getMonthlyTrends(own, a.user, a.months, lastOp.at)
        /\ lastOp.op \in {"findByUserAndDateRange", "findByCategory",
                          "getSpendingByCategory", "getMonthlyTrends"}
           /\ DOMAIN own = {} => result = <<>>

\* a query by category for one user, in a collection where another user has
\* a record of that category too, has returned the user's record alone
C9_Witness ==
    /\ lastOp.op = "findByCategory"
    /\ Len(result) = 1
    /\ result[1].user = lastOp.args.user
    /\ \E i \in DOMAIN store :
          /\ store[i].user # lastOp.args.user
          /\ store[i].primary = Some(lastOp.args.category)
    /\ lastOp.args.limit = 2

===========================================================================
